---- MODULE Spec2Model ----
(***************************************************************************)
(* cluegen: classes generated from type clues.                             *)
(*                                                                         *)
(* The model follows src/cluegen/__init__.py: the field collector          *)
(* all_clues with its lru_cache, the lazy method generator cluegen         *)
(* (__get__ / __set_name__), the registration pruning of                   *)
(* DatumBase.__init_subclass__, the generated methods of Datum and the     *)
(* property rewriting of FrozenMeta / FrozenDatum.                         *)
(*                                                                         *)
(* Single inheritance only: a class has one base, its __mro__ is the chain *)
(* from the class up to DatumBase (object, which holds none of the         *)
(* modelled names, is left out).                                           *)
(***************************************************************************)
EXTENDS Integers, Sequences, FiniteSets, TLC

----------------------------------------------------------------------------
(* Bounds of the model *)

\* user classes that may be defined on top of Datum / FrozenDatum
MaxClasses == 2
\* cap on the synthesis counter of one (type, operation) pair
MaxSynth == 2
\* further classes handed to all_clues besides the ones under observation
NumOther == 33
\* threads racing through cluegen.__get__
NumThreads == 2
\* largest position handed to __getitem__ (positions range over -MaxPos..MaxPos)
MaxPos == 3
MaxArgs == 3
MaxKept == 2

----------------------------------------------------------------------------
(* Classes *)

DatumBase == 0
Datum == 1
FrozenDatum == 2

UserClasses == (FrozenDatum + 1)..(FrozenDatum + MaxClasses)
\* the first and the second user class
FirstUser == FrozenDatum + 1
SecondUser == FrozenDatum + 2
Classes == {DatumBase, Datum, FrozenDatum} \cup UserClasses

\* lru_cache(maxsize=32) on all_clues
maxsize == 32

\* FrozenMeta._cluegen_prop_store_prefix_
_cluegen_prop_store_prefix_ == "_cluegen_prop_"

\* the @cluegen methods of the body of Datum, in definition order
DatumBody == <<"__init__", "__repr__", "__iter__", "__eq__", "__getitem__", "__len__">>
\* the @cluegen methods of the body of FrozenDatum
FrozenDatumBody == <<"__hash__">>

OpNames == {"__init__", "__repr__", "__iter__", "__eq__", "__getitem__", "__len__", "__hash__"}
\* a fixed order of the operation names: the order a class body lists them in
OpOrder == DatumBody \o FrozenDatumBody

Range(s) == {s[i] : i \in DOMAIN s}

SeqOfSet(order, S) == SelectSeq(order, LAMBDA o : o \in S)

----------------------------------------------------------------------------
(* Values, and their rendering into generated source text *)

IntV(lit) == [ty |-> "int", lit |-> lit]
StrV(lit) == [ty |-> "str", lit |-> lit]
NoValue == [ty |-> "none", lit |-> ""]

\* strings whose characters are all decimal digits / form an identifier
DigitStrings == {"1", "2"}
IdentStrings == {"a"}

\* repr(v): an int prints as its digits, a str as a quoted literal
Repr(v) == IF v.ty = "int" THEN [tok |-> "intlit", txt |-> v.lit]
           ELSE [tok |-> "strlit", txt |-> v.lit]

\* format(v) as in f'{k}={v}': str(v); a str contributes its bare characters,
\* which the compiler then reads as a number, a name or not at all
Str(v) == IF v.ty = "int" THEN [tok |-> "intlit", txt |-> v.lit]
          ELSE IF v.lit \in DigitStrings THEN [tok |-> "intlit", txt |-> v.lit]
          ELSE IF v.lit \in IdentStrings THEN [tok |-> "name", txt |-> v.lit]
          ELSE [tok |-> "bad", txt |-> v.lit]

\* evaluating a default expression when exec runs the def statement in locs = {}
EvalText(t) == IF t.tok = "intlit" THEN IntV(t.txt)
               ELSE IF t.tok = "strlit" THEN StrV(t.txt)
               ELSE NoValue

----------------------------------------------------------------------------
(* Field declarations of a class body: name: type [= default] *)

Fld(n, t) == [name |-> n, type |-> t, hasDefault |-> FALSE, default |-> NoValue]
FldD(n, t, d) == [name |-> n, type |-> t, hasDefault |-> TRUE, default |-> d]

NoDecl == <<>>

RECURSIVE Mro(_, _)
\* cls.__mro__ (without object)
Mro(par, c) == IF c = DatumBase THEN <<c>> ELSE <<c>> \o Mro(par, par[c])

Reversed(s) == [i \in 1..Len(s) |-> s[Len(s) + 1 - i]]

\* dict.update for one key: an existing key keeps its place and takes the new
\* value, a new key is appended
DictSet(d, k, v) ==
    IF \E i \in DOMAIN d : d[i].k = k
    THEN [i \in DOMAIN d |-> IF d[i].k = k THEN [k |-> k, v |-> v] ELSE d[i]]
    ELSE Append(d, [k |-> k, v |-> v])

RECURSIVE DictUpdate(_, _)
\* d.update(e), e a dict given as its item sequence
DictUpdate(d, e) == IF e = <<>> THEN d
                    ELSE DictUpdate(DictSet(d, Head(e).k, Head(e).v), Tail(e))

DictKeys(d) == [i \in DOMAIN d |-> d[i].k]
DictHas(d, k) == \E i \in DOMAIN d : d[i].k = k
DictGet(d, k) == LET i == CHOOSE j \in DOMAIN d : d[j].k = k IN d[i].v

\* c.__annotations__ of a class body
Annotations(decls, c) == [i \in DOMAIN decls[c] |-> [k |-> decls[c][i].name, v |-> decls[c][i].type]]

RECURSIVE CluesFold(_, _, _)
CluesFold(decls, cs, clues) ==
    IF cs = <<>> THEN clues
    ELSE CluesFold(decls, Tail(cs), DictUpdate(clues, Annotations(decls, Head(cs))))

\* a fold that starts at the class itself and ends at its most-base ancestor
all_clues_body_DerivedFirst(decls, par, cls) == CluesFold(decls, Mro(par, cls), <<>>)

\* the body of all_clues: fold the annotations over reversed(cls.__mro__)
all_clues_body(decls, par, cls) == CluesFold(decls, Reversed(Mro(par, cls)), <<>>)

----------------------------------------------------------------------------
(* Class attributes of the declared fields *)

\* the metaclass is inherited: FrozenMeta.__new__ builds FrozenDatum and
\* every class below it
IsFrozen(par, c) == FrozenDatum \in Range(Mro(par, c))

\* a metaclass that wraps only the annotated names without a default and
\* leaves a default in place as a plain class attribute
ClassDict_DefaultsStayPlain(decls, par, c, name) ==
    IF \E i \in DOMAIN decls[c] : decls[c][i].name = name
    THEN LET d == decls[c][CHOOSE i \in DOMAIN decls[c] : decls[c][i].name = name]
         IN  IF d.hasDefault
             THEN [kind |-> "value", val |-> d.default, slot |-> ""]
             ELSE IF IsFrozen(par, c)
                  THEN [kind |-> "property", val |-> NoValue,
                        slot |-> _cluegen_prop_store_prefix_ \o name]
                  ELSE [kind |-> "absent", val |-> NoValue, slot |-> ""]
    ELSE [kind |-> "absent", val |-> NoValue, slot |-> ""]

\* the entry of a field name in cls.__dict__.  A plain class keeps the default
\* value of "name: type = default" there; FrozenMeta.__new__ replaces every
\* annotated name by property(getter of the hidden slot, _frozen_error, _frozen_error)
ClassDict(decls, par, c, name) ==
    IF \E i \in DOMAIN decls[c] : decls[c][i].name = name
    THEN LET d == decls[c][CHOOSE i \in DOMAIN decls[c] : decls[c][i].name = name]
         IN  IF IsFrozen(par, c)
             THEN [kind |-> "property", val |-> NoValue,
                   slot |-> _cluegen_prop_store_prefix_ \o name]
             ELSE IF d.hasDefault
                  THEN [kind |-> "value", val |-> d.default, slot |-> ""]
                  ELSE [kind |-> "absent", val |-> NoValue, slot |-> ""]
    ELSE [kind |-> "absent", val |-> NoValue, slot |-> ""]

RECURSIVE LookupAttr(_, _, _, _)
\* the type-level lookup of a field name along an __mro__ (given as a sequence)
LookupAttr(decls, par, mro, name) ==
    IF mro = <<>> THEN [kind |-> "absent", val |-> NoValue, slot |-> ""]
    ELSE IF ClassDict(decls, par, Head(mro), name).kind # "absent"
         THEN ClassDict(decls, par, Head(mro), name)
         ELSE LookupAttr(decls, par, Tail(mro), name)

\* the defaults FrozenMeta.__new__ records for the class it builds: the
\* annotated names that have a value in the class body
OwnDefaults(decl) ==
    LET withDefault == SelectSeq(decl, LAMBDA f : f.hasDefault)
    IN  [i \in DOMAIN withDefault |-> [k |-> withDefault[i].name, v |-> withDefault[i].default]]

RECURSIVE DefaultsFold(_, _, _)
DefaultsFold(cgd, cs, res) ==
    IF cs = <<>> THEN res
    ELSE DefaultsFold(cgd, Tail(cs), DictUpdate(res, cgd[Head(cs)]))

\* FrozenMeta.get_defaults: res.update over cls.__mro__, the class itself first
get_defaults(cgd, par, cls) == DefaultsFold(cgd, Mro(par, cls), <<>>)

----------------------------------------------------------------------------
(* The code generators: func(cls) of each @cluegen method *)

Param(n) == [name |-> n, hasDefault |-> FALSE, text |-> [tok |-> "", txt |-> ""]]
ParamD(n, t) == [name |-> n, hasDefault |-> TRUE, text |-> t]

Line(ind, kind, names) == [indent |-> ind, kind |-> kind, names |-> names]

\* Datum._gen_init_args: name=repr(getattr(cls, name)) when hasattr(cls, name)
\* (no class of the model has __slots__ members, so no member descriptors)
Datum_gen_init_args(decls, par, cls, clues) ==
    [i \in DOMAIN clues |->
        LET a == LookupAttr(decls, par, Mro(par, cls), clues[i].k)
        IN  IF a.kind = "value" THEN ParamD(clues[i].k, Repr(a.val))
            ELSE Param(clues[i].k)]

\* FrozenDatum._gen_init_args: f'{k}={v}' for the names of get_defaults(cls)
FrozenDatum_gen_init_args(cgd, par, cls, clues) ==
    LET defaults == get_defaults(cgd, par, cls)
    IN  [i \in DOMAIN clues |->
            IF DictHas(defaults, clues[i].k)
            THEN ParamD(clues[i].k, Str(DictGet(defaults, clues[i].k)))
            ELSE Param(clues[i].k)]

\* cls._gen_init_args resolves to the override of FrozenDatum below FrozenDatum
_gen_init_args(decls, cgd, par, cls, clues) ==
    IF IsFrozen(par, cls) THEN FrozenDatum_gen_init_args(cgd, par, cls, clues)
    ELSE Datum_gen_init_args(decls, par, cls, clues)

\* Datum._gen_init_body with the prepend of the class: '' for Datum,
\* _cluegen_prop_store_prefix_ for FrozenDatum
_gen_init_body(par, cls, clues) ==
    LET prepend == IF IsFrozen(par, cls) THEN _cluegen_prop_store_prefix_ ELSE ""
    IN  [i \in DOMAIN clues |-> Line(4, "store", <<prepend \o clues[i].k, clues[i].k>>)]

\* the text func(cls) returns, as the def statement it spells: the parameters
\* after self and the statements of the body with their indentation
FuncCode(decls, cgd, par, cls, op) ==
    LET clues == all_clues_body(decls, par, cls)
        names == DictKeys(clues)
    IN  CASE op = "__init__" ->
               [name |-> op, params |-> _gen_init_args(decls, cgd, par, cls, clues),
                lines |-> _gen_init_body(par, cls, clues)]
          [] op = "__repr__" ->
               [name |-> op, params |-> <<>>, lines |-> <<Line(4, "return_repr", names)>>]
          [] op = "__iter__" ->
               [name |-> op, params |-> <<>>,
                lines |-> [i \in DOMAIN names |-> Line(3, "yield", <<names[i]>>)]]
          [] op = "__eq__" ->
               [name |-> op, params |-> <<Param("other")>>,
                lines |-> <<Line(4, "if_same_class_return_eq", names)>>]
          [] op = "__getitem__" ->
               [name |-> op, params |-> <<Param("item")>>,
                lines |-> <<Line(4, "return_getattr_item", names)>>]
          [] op = "__len__" ->
               [name |-> op, params |-> <<>>, lines |-> <<Line(4, "return_len", names)>>]
          [] OTHER ->
               [name |-> op, params |-> <<>>, lines |-> <<Line(4, "return_hash", names)>>]

\* code = func(cls) + '\n    pass'
WithPass(code) == [code EXCEPT !.lines = Append(@, Line(4, "pass", <<>>))]

\* exec(code, locs): compiling the def statement and evaluating its defaults.
\* The statements of a block share one indentation; a parameter without a
\* default may not follow one with a default; a default is evaluated in the
\* empty namespace locs.
ExecError(code) ==
    IF \E i \in DOMAIN code.lines : code.lines[i].indent # code.lines[1].indent
    THEN "IndentationError"
    ELSE IF \/ \E i, j \in DOMAIN code.params :
                  i < j /\ code.params[i].hasDefault /\ ~code.params[j].hasDefault
            \/ \E i \in DOMAIN code.params :
                  code.params[i].hasDefault /\ code.params[i].text.tok = "bad"
         THEN "SyntaxError"
         ELSE IF \E i \in DOMAIN code.params :
                     code.params[i].hasDefault /\ code.params[i].text.tok = "name"
              THEN "NameError"
              ELSE ""

\* the function object the def statement creates: parameters with their
\* evaluated defaults, and the body
ExecFunc(code) ==
    [name |-> code.name,
     params |-> [i \in DOMAIN code.params |->
                    [name |-> code.params[i].name,
                     hasDefault |-> code.params[i].hasDefault,
                     default |-> IF code.params[i].hasDefault
                                 THEN EvalText(code.params[i].text) ELSE NoValue]],
     lines |-> code.lines]

----------------------------------------------------------------------------
(* Bindings of the operation names in a class namespace *)

NoFunc == [name |-> "", params |-> <<>>, lines |-> <<>>]

\* the name is not in cls.__dict__
Absent == [kind |-> "absent", cls |-> DatumBase, op |-> "", id |-> 0, by |-> DatumBase, fn |-> NoFunc]
\* __hash__ = None, which type.__new__ adds to a body that defines __eq__ and no __hash__
NoneB == [kind |-> "none", cls |-> DatumBase, op |-> "", id |-> 0, by |-> DatumBase, fn |-> NoFunc]
\* the ClueGen_<op> instance that @cluegen created in the body of class c
GenB(c, op) == [kind |-> "gen", cls |-> c, op |-> op, id |-> 0, by |-> c, fn |-> NoFunc]
\* a method written by hand in the body of class c
UserB(c, op) == [kind |-> "user", cls |-> c, op |-> op, id |-> 0, by |-> c, fn |-> NoFunc]
\* meth = wraps(func)(locs[func.__name__]): the id-th function generated for
\* (c, op), by the generator of the body of class by
FuncB(c, op, id, by, fn) == [kind |-> "func", cls |-> c, op |-> op, id |-> id, by |-> by, fn |-> fn]

\* the namespace a class body leaves: hand-written methods, @cluegen methods
BodyNs(c, user, regen) ==
    [op \in OpNames |->
        IF op \in user THEN UserB(c, op)
        ELSE IF op \in regen THEN GenB(c, op)
        ELSE IF op = "__hash__" /\ "__eq__" \in (user \cup regen) THEN NoneB
        ELSE Absent]

RECURSIVE LookupOp(_, _, _)
\* the first class of an __mro__ (a sequence) whose __dict__ holds op
LookupOp(nsf, mro, op) ==
    IF mro = <<>> THEN Absent
    ELSE IF nsf[Head(mro)][op].kind # "absent" THEN nsf[Head(mro)][op]
         ELSE LookupOp(nsf, Tail(mro), op)

RECURSIVE LookupMethods(_, _)
\* cls._methods: the list of the first class of the __mro__ that has its own
LookupMethods(meths, mro) ==
    IF meths[Head(mro)].own THEN meths[Head(mro)].list
    ELSE LookupMethods(meths, Tail(mro))

\* a __set_name__ that appends to the list the class inherits instead of a
\* copy of it: the class that owns the list sees the new entry too
__set_name___SharedList(meths, par, cls, name) ==
    LET methods == LookupMethods(meths, Mro(par, cls))
        owner == CHOOSE k \in Range(Mro(par, cls)) :
                    /\ meths[k].own
                    /\ \A j \in Range(Mro(par, cls)) : meths[j].own => Len(Mro(par, j)) <= Len(Mro(par, k))
        new == [own |-> TRUE, list |-> Append(methods, [name |-> name, val |-> GenB(cls, name)])]
    IN  [meths EXCEPT ![owner] = new, ![cls] = new]

\* cluegen.__set_name__(self, cls, name), self the generator of the body of cls
__set_name__(meths, par, cls, name) ==
    LET methods == LookupMethods(meths, Mro(par, cls))
    IN  [meths EXCEPT ![cls] =
            [own |-> TRUE, list |-> Append(methods, [name |-> name, val |-> GenB(cls, name)])]]

RECURSIVE SetNames(_, _, _, _)
\* type.__new__ calls __set_name__ for each generator of the body, in body order
SetNames(meths, par, cls, names) ==
    IF names = <<>> THEN meths
    ELSE SetNames(__set_name__(meths, par, cls, Head(names)), par, cls, Tail(names))

RECURSIVE InitSubclassLoop_KeepAll(_, _, _)
\* a loop that keeps every entry of the list, also one whose name the class
\* binds to something else
InitSubclassLoop_KeepAll(nsC, rest, submethods) ==
    IF rest = <<>> THEN [ns |-> nsC, submethods |-> submethods]
    ELSE LET e == Head(rest)
         IN  IF nsC[e.name].kind = "absent"
             THEN InitSubclassLoop_KeepAll([nsC EXCEPT ![e.name] = e.val], Tail(rest),
                                           Append(submethods, e))
             ELSE InitSubclassLoop_KeepAll(nsC, Tail(rest), Append(submethods, e))

RECURSIVE InitSubclassLoop(_, _, _)
\* the for loop of __init_subclass__ over cls._methods
InitSubclassLoop(nsC, rest, submethods) ==
    IF rest = <<>> THEN [ns |-> nsC, submethods |-> submethods]
    ELSE LET e == Head(rest)
         IN  IF nsC[e.name].kind = "absent"
             THEN InitSubclassLoop([nsC EXCEPT ![e.name] = e.val], Tail(rest),
                                   Append(submethods, e))
             ELSE IF nsC[e.name] = e.val
                  THEN InitSubclassLoop(nsC, Tail(rest), Append(submethods, e))
                  ELSE InitSubclassLoop(nsC, Tail(rest), submethods)

\* DatumBase.__init_subclass__(cls) on the tables st
__init_subclass__(st, cls) ==
    LET inherited == LookupMethods(st.methods, Mro(st.parent, cls))
        r == InitSubclassLoop(st.ns[cls], inherited, <<>>)
    IN  [st EXCEPT !.ns[cls] = r.ns,
                   !.methods[cls] = IF r.submethods # inherited
                                    THEN [own |-> TRUE, list |-> r.submethods]
                                    ELSE @]

\* the class statement "class c(p): <decl> <user methods> <@cluegen methods>":
\* the metaclass builds the namespace (FrozenMeta.__new__ records the defaults
\* of a frozen class), type.__new__ calls __set_name__ and then __init_subclass__
CreateClass(st, c, p, decl, user, regen) ==
    LET par == [st.parent EXCEPT ![c] = p]
        st1 == [parent |-> par,
                decls |-> [st.decls EXCEPT ![c] = decl],
                cgd |-> IF IsFrozen(par, c)
                        THEN [st.cgd EXCEPT ![c] = OwnDefaults(decl)]
                        ELSE st.cgd,
                methods |-> SetNames(st.methods, par, c, SeqOfSet(OpOrder, regen)),
                ns |-> [st.ns EXCEPT ![c] = BodyNs(c, user, regen)]]
    IN  __init_subclass__(st1, c)

\* before any class statement below DatumBase has run
EmptyTables ==
    [parent |-> [c \in Classes |-> DatumBase],
     decls |-> [c \in Classes |-> NoDecl],
     cgd |-> [c \in Classes |-> <<>>],
     methods |-> [c \in Classes |-> [own |-> c = DatumBase, list |-> <<>>]],
     ns |-> [c \in Classes |-> [op \in OpNames |-> Absent]]]

\* the module as imported: class Datum(DatumBase), class FrozenDatum(Datum)
ImportedTables ==
    CreateClass(CreateClass(EmptyTables, Datum, DatumBase, NoDecl, {}, Range(DatumBody)),
                FrozenDatum, Datum, NoDecl, {}, Range(FrozenDatumBody))

----------------------------------------------------------------------------
(* State *)

VARIABLES
    parent,      \* the base of each class
    decls,       \* the field declarations of each class body
    cgd,         \* FrozenMeta._cluegen_defaults_
    methods,     \* _methods of each class: whether in its __dict__, and the list
    ns,          \* the binding of each operation name in each cls.__dict__
    defined,     \* the user classes whose class statement has run
    userDefd,    \* per class, the operations its body wrote by hand
    genDefd,     \* per class, the operations its body marked @cluegen
    synthCount,  \* per (class, operation), how often func(cls) has run
    th,          \* per thread, its place inside cluegen.__get__
    cache,       \* the lru_cache of all_clues, most recently used first
    made,        \* per class, how many mappings all_clues has built for it
    first,       \* per class, the mapping the first all_clues call returned
    ret,         \* the class and the mapping of the latest all_clues call
    inst,        \* the instance under observation: its class and __dict__
    out,         \* the result of the latest operation on inst
    kept         \* the instances other variables still refer to

tables == <<parent, decls, cgd, methods, ns>>
classVars == <<tables, defined, userDefd, genDefd, synthCount>>
cacheVars == <<cache, made, first, ret>>
instVars == <<inst, out, kept>>
vars == <<classVars, th, cacheVars, instVars>>

Tables == [parent |-> parent, decls |-> decls, cgd |-> cgd, methods |-> methods, ns |-> ns]

SetTables(st) ==
    /\ parent' = st.parent
    /\ decls' = st.decls
    /\ cgd' = st.cgd
    /\ methods' = st.methods
    /\ ns' = st.ns

\* further classes handed to all_clues: classes without annotations of their own
OtherClasses == (FrozenDatum + MaxClasses + 1)..(FrozenDatum + MaxClasses + NumOther)
CacheKeys == Classes \cup OtherClasses

\* a mapping object all_clues built: the n-th one built for cls
NoObj == [cls |-> DatumBase, n |-> 0, clues |-> <<>>]

\* nothing cached, all_clues not called yet
CacheEmpty ==
    /\ cache = <<>>
    /\ made = [c \in CacheKeys |-> 0]
    /\ first = [c \in CacheKeys |-> NoObj]
    /\ ret = NoObj

\* the classes that exist
Live == {DatumBase, Datum, FrozenDatum} \cup defined

NoThread == [pc |-> "idle", cls |-> DatumBase, op |-> "", gen |-> Absent, meth |-> Absent, err |-> ""]
\* no instance yet; an instance has its class, its __dict__, the positional
\* arguments it was constructed with and its __dict__ as __init__ left it
NoInst == [cls |-> DatumBase, dict |-> <<>>, args |-> <<>>, dict0 |-> <<>>]
\* the latest operation on the instance: its argument (a position or a field
\* name), the exception it raised with the class the message names, and the
\* values it produced
NoOut == [op |-> "", pos |-> 0, name |-> "", err |-> "", who |-> DatumBase, other |-> NoInst, vals |-> <<>>]

----------------------------------------------------------------------------
(* cluegen.__get__ *)

\* a generator that specializes to the class whose body created it, not to the
\* class of the access
Generate_ForOwner(st, gen, cls, id) ==
    LET code == WithPass(FuncCode(st.decls, st.cgd, st.parent, gen.cls, gen.op))
    IN  [err |-> ExecError(code),
         meth |-> FuncB(cls, gen.op, id, gen.by, ExecFunc(code))]

\* lines 37-40 of __get__(self, instance, cls), self the generator gen:
\* code = func(cls) + pass, exec, meth = wraps(func)(locs[name]); id numbers
\* the functions generated for (cls, name)
Generate(st, gen, cls, id) ==
    LET code == WithPass(FuncCode(st.decls, st.cgd, st.parent, cls, gen.op))
    IN  [err |-> ExecError(code),
         meth |-> FuncB(cls, gen.op, id, gen.by, ExecFunc(code))]

\* a setattr on the class whose body created the generator
Install_OnOwner(nsf, cls, meth) == [nsf EXCEPT ![meth.by][meth.op] = meth]

\* line 41: setattr(cls, func.__name__, meth)
Install(nsf, cls, meth) == [nsf EXCEPT ![cls][meth.op] = meth]

\* what an attribute lookup of op finds when it starts at the __mro__ suffix
\* mro for an instance of cls or for cls itself: a generator found there runs
\* its __get__ with that cls, anything else is returned as found
Resolved(st, counts, mro, cls, op) ==
    LET b == LookupOp(st.ns, mro, op)
    IN  IF b.kind = "gen"
        THEN LET g == Generate(st, b, cls, counts[cls][op] + 1)
             IN  [ran |-> TRUE, err |-> g.err,
                  b |-> IF g.err = "" THEN g.meth ELSE Absent,
                  ns |-> IF g.err = "" THEN Install(st.ns, cls, g.meth) ELSE st.ns,
                  counts |-> [counts EXCEPT ![cls][op] = @ + 1]]
        ELSE [ran |-> FALSE, err |-> IF b.kind = "absent" THEN "AttributeError" ELSE "",
              b |-> b, ns |-> st.ns, counts |-> counts]

\* the lookup as a step: the generator runs at most MaxSynth times per pair
Resolve(mro, cls, op) ==
    LET r == Resolved(Tables, synthCount, mro, cls, op)
    IN  /\ r.counts[cls][op] <= MaxSynth
        /\ ns' = r.ns
        /\ synthCount' = r.counts

----------------------------------------------------------------------------
(* The class-level operations *)

\* the operations a user class body may write by hand or mark @cluegen
UserOps == {"__init__"}
\* the operations looked up on classes and instances
AccessOps == {"__init__", "__iter__"}
\* the bodies of the user classes
ClassDecls == {NoDecl, <<Fld("x", "int")>>, <<Fld("y", "int")>>}

\* class c(p): decl, hand-written methods user, @cluegen methods regen
DefineClass(c, p, decl, user, regen) ==
    /\ c \in UserClasses \ defined
    /\ \A k \in UserClasses : k < c => k \in defined
    /\ p \in Live \ {DatumBase}
    /\ user \cap regen = {}
    /\ SetTables(CreateClass(Tables, c, p, decl, user, regen))
    /\ defined' = defined \cup {c}
    /\ userDefd' = [userDefd EXCEPT ![c] = user]
    /\ genDefd' = [genDefd EXCEPT ![c] = regen]
    /\ UNCHANGED <<synthCount, th, cacheVars, instVars>>

\* cls.op or instance.op, instance of exactly cls (also the implicit lookups
\* of the special methods: cls(...), repr(x), iter(x), hash(x), ...)
Access(cls, op) ==
    /\ cls \in defined
    /\ Resolve(Mro(parent, cls), cls, op)
    /\ UNCHANGED <<parent, decls, cgd, methods, defined, userDefd, genDefd, th, cacheVars, instVars>>

\* the part of an __mro__ after class c
After(mro, c) == LET i == CHOOSE j \in DOMAIN mro : mro[j] = c
                 IN  SubSeq(mro, i + 1, Len(mro))

\* super(c, instance).op inside a method of class c, for an instance of cls
\* (c is cls or one of its ancestors): the lookup starts after c in
\* type(instance).__mro__ and hands type(instance) to __get__
SuperAccess(c, cls, op) ==
    /\ cls \in defined
    /\ c \in Range(Mro(parent, cls)) \cap defined
    /\ Resolve(After(Mro(parent, cls), c), cls, op)
    /\ UNCHANGED <<parent, decls, cgd, methods, defined, userDefd, genDefd, th, cacheVars, instVars>>

\* the tables hold st
TablesAre(st) ==
    /\ parent = st.parent
    /\ decls = st.decls
    /\ cgd = st.cgd
    /\ methods = st.methods
    /\ ns = st.ns

Init ==
    /\ TablesAre(ImportedTables)
    /\ defined = {}
    /\ userDefd = [c \in Classes |-> {}]
    /\ genDefd = [c \in Classes |->
                    IF c = Datum THEN Range(DatumBody)
                    ELSE IF c = FrozenDatum THEN Range(FrozenDatumBody) ELSE {}]
    /\ synthCount = [c \in Classes |-> [op \in OpNames |-> 0]]
    /\ th = [t \in 1..NumThreads |-> NoThread]
    /\ cache = <<>>
    /\ CacheEmpty
    /\ inst = NoInst
    /\ kept = {}
    /\ out = NoOut

Next ==
    \/ \E c \in UserClasses, p \in Classes, decl \in ClassDecls,
          user \in SUBSET UserOps, regen \in SUBSET UserOps :
            DefineClass(c, p, decl, user, regen)
    \/ \E cls \in Classes, op \in AccessOps : Access(cls, op)
    \/ \E c \in Classes, cls \in Classes, op \in AccessOps : SuperAccess(c, cls, op)

Spec == Init /\ [][Next]_vars

----------------------------------------------------------------------------
(* Properties of the class-level operations, under Spec *)

\* the names registered in the _methods list a class inherits from its base
InheritedNames(c) ==
    {e.name : e \in Range(LookupMethods(methods, Mro(parent, parent[c])))}

\* what __get__ generates for (c, op) from the tables as they are
OwnFunc(c, op) == ExecFunc(WithPass(FuncCode(decls, cgd, parent, c, op)))

\* C2: every operation a class body wrote by hand is still bound to that
\* hand-written method, after any class definitions and accesses, also an
\* access to the generator of an ancestor through super() inside that method.
C2_UserOverrideKept ==
    \A c \in defined : \A op \in userDefd[c] : ns[c][op] = UserB(c, op)

\* C3: single-threaded, the generator runs at most once for a (type,
\* operation) pair, and once it has run the generated function is bound on
\* the type itself.
C3_SynthesizedOnceThenBound ==
    \A c \in Live : \A op \in OpNames :
        /\ synthCount[c][op] <= 1
        /\ synthCount[c][op] = 1 => (ns[c][op].kind = "func" /\ ns[c][op].cls = c)

\* C4: a subclass S that does not define N itself and inherits a registration
\* for N holds its own generator for N until its first access, whatever was
\* synthesized on its ancestors; what an access installs on S is generated
\* from the field table of S itself.
C4_OwnGeneratorOwnTable ==
    \A S \in defined : \A N \in InheritedNames(S) \ (userDefd[S] \cup genDefd[S]) :
        /\ ns[S][N].kind \in {"gen", "func"}
        /\ synthCount[S][N] = 0 => ns[S][N].kind = "gen"
        /\ ns[S][N].kind = "func" => (ns[S][N].cls = S /\ ns[S][N].fn = OwnFunc(S, N))

\* C4 witness: the constructor of a class was synthesized, and a subclass with
\* a different field table has had its own constructor synthesized, which
\* differs from the one of its base
C4_Witness ==
    \E S \in defined :
        /\ parent[S] \in defined
        /\ "__init__" \notin (userDefd[S] \cup genDefd[S])
        /\ ns[parent[S]]["__init__"].kind = "func"
        /\ ns[S]["__init__"].kind = "func"
        /\ ns[S]["__init__"].fn # ns[parent[S]]["__init__"].fn
        /\ ns[S]["__init__"].fn = OwnFunc(S, "__init__")

----------------------------------------------------------------------------
(* Threads inside cluegen.__get__ *)

\* the operations the threads look up
ThreadOps == {"__init__", "__repr__"}

\* a thread starts cls.op (or instance.op): the lookup along the __mro__; a
\* generator found there is entered (line 36), anything else is returned
T_Lookup(t, cls, op) ==
    /\ th[t].pc = "idle"
    /\ cls \in defined
    /\ LET b == LookupOp(ns, Mro(parent, cls), op)
       IN  th' = [th EXCEPT ![t] =
                    IF b.kind = "gen"
                    THEN [NoThread EXCEPT !.pc = "L38", !.cls = cls, !.op = op, !.gen = b]
                    ELSE [NoThread EXCEPT !.pc = "done", !.cls = cls, !.op = op, !.meth = b]]
    /\ UNCHANGED <<classVars, cacheVars, instVars>>

\* lines 38-40: code = func(cls) + pass; exec(code, locs); meth = wraps(...).
\* An exception of exec leaves __get__.
T_Generate(t) ==
    /\ th[t].pc = "L38"
    /\ LET cls == th[t].cls
           op == th[t].op
           g == Generate(Tables, th[t].gen, cls, synthCount[cls][op] + 1)
       IN  /\ synthCount' = [synthCount EXCEPT ![cls][op] = @ + 1]
           /\ th' = [th EXCEPT ![t] =
                        IF g.err = "" THEN [@ EXCEPT !.pc = "L41", !.meth = g.meth]
                        ELSE [@ EXCEPT !.pc = "done", !.err = g.err]]
    /\ UNCHANGED <<tables, defined, userDefd, genDefd, cacheVars, instVars>>

\* line 41: setattr(cls, func.__name__, meth)
T_SetAttr(t) ==
    /\ th[t].pc = "L41"
    /\ ns' = Install(ns, th[t].cls, th[t].meth)
    /\ th' = [th EXCEPT ![t].pc = "L42"]
    /\ UNCHANGED <<parent, decls, cgd, methods, defined, userDefd, genDefd, synthCount,
                   cacheVars, instVars>>

\* line 42: return meth.__get__(instance, cls)
T_Return(t) ==
    /\ th[t].pc = "L42"
    /\ th' = [th EXCEPT ![t].pc = "done"]
    /\ UNCHANGED <<classVars, cacheVars, instVars>>

\* one user class below Datum or FrozenDatum, not accessed yet
InitThreads ==
    /\ \E p \in {Datum, FrozenDatum}, decl \in ClassDecls :
          TablesAre(CreateClass(ImportedTables, FirstUser, p, decl, {}, {}))
    /\ defined = {FirstUser}
    /\ userDefd = [c \in Classes |-> {}]
    /\ genDefd = [c \in Classes |->
                    IF c = Datum THEN Range(DatumBody)
                    ELSE IF c = FrozenDatum THEN Range(FrozenDatumBody) ELSE {}]
    /\ synthCount = [c \in Classes |-> [op \in OpNames |-> 0]]
    /\ th = [t \in 1..NumThreads |-> NoThread]
    /\ cache = <<>>
    /\ CacheEmpty
    /\ inst = NoInst
    /\ kept = {}
    /\ out = NoOut

\* every thread makes one access; the interpreter may switch threads between
\* any two lines of __get__
NextThreads ==
    \E t \in 1..NumThreads :
        \/ \E cls \in Classes, op \in ThreadOps : T_Lookup(t, cls, op)
        \/ T_Generate(t)
        \/ T_SetAttr(t)
        \/ T_Return(t)

SpecThreads == InitThreads /\ [][NextThreads]_vars

\* C1: when threads race on the first access to an operation of a type, its
\* synthesis function has run once when all their accesses are complete.
C1_OneSynthesisUnderRace ==
    (\A t \in 1..NumThreads : th[t].pc = "done") =>
        \A c \in Live : \A op \in OpNames : synthCount[c][op] <= 1

----------------------------------------------------------------------------
(* all_clues behind lru_cache(maxsize=32) *)

\* the classes whose mappings are observed
Observed == {FirstUser, SecondUser}

\* the lru_cache wrapper around all_clues: a hit returns the cached mapping
\* and makes its entry the most recently used; a miss runs the body, stores
\* the new mapping and, when the cache then holds more than maxsize entries,
\* drops the least recently used one
lru_call(entries, count, cls, clues) ==
    IF \E i \in DOMAIN entries : entries[i].cls = cls
    THEN LET i == CHOOSE j \in DOMAIN entries : entries[j].cls = cls
         IN  [hit |-> TRUE, obj |-> entries[i],
              entries |-> <<entries[i]>> \o SelectSeq(entries, LAMBDA e : e.cls # cls)]
    ELSE LET obj == [cls |-> cls, n |-> count + 1, clues |-> clues]
             all == <<obj>> \o entries
         IN  [hit |-> FALSE, obj |-> obj,
              entries |-> IF Len(all) > maxsize THEN SubSeq(all, 1, maxsize) ELSE all]

\* all_clues(cls)
all_clues(cls) ==
    /\ \/ cls \in Observed
       \/ /\ cls \in OtherClasses
          /\ made[cls] = 0
          /\ \A o \in OtherClasses : o < cls => made[o] > 0
    /\ LET clues == IF cls \in Classes THEN all_clues_body(decls, parent, cls) ELSE <<>>
           r == lru_call(cache, made[cls], cls, clues)
       IN  /\ cache' = r.entries
           /\ made' = IF r.hit THEN made ELSE [made EXCEPT ![cls] = @ + 1]
           /\ first' = IF first[cls] = NoObj THEN [first EXCEPT ![cls] = r.obj] ELSE first
           /\ ret' = r.obj
    /\ UNCHANGED <<classVars, th, instVars>>

\* the two observed classes, one below the other
InitClues ==
    /\ \E p \in {Datum, FrozenDatum} :
          TablesAre(CreateClass(CreateClass(ImportedTables, FirstUser, p,
                                            <<Fld("x", "int")>>, {}, {}),
                                SecondUser, FirstUser, <<Fld("y", "int")>>, {}, {}))
    /\ defined = {FirstUser, SecondUser}
    /\ userDefd = [c \in Classes |-> {}]
    /\ genDefd = [c \in Classes |->
                    IF c = Datum THEN Range(DatumBody)
                    ELSE IF c = FrozenDatum THEN Range(FrozenDatumBody) ELSE {}]
    /\ synthCount = [c \in Classes |-> [op \in OpNames |-> 0]]
    /\ th = [t \in 1..NumThreads |-> NoThread]
    /\ CacheEmpty
    /\ inst = NoInst
    /\ kept = {}
    /\ out = NoOut

NextClues == \E cls \in CacheKeys : all_clues(cls)

SpecClues == InitClues /\ [][NextClues]_vars

\* C7: whatever calls were made in between, a call for a class returns the
\* very mapping object its first call returned, and the mapping of a class is
\* built once.
C7_CachedForLifetime ==
    \A c \in CacheKeys :
        /\ made[c] <= 1
        /\ (ret.cls = c /\ first[c] # NoObj) => ret = first[c]

----------------------------------------------------------------------------
(* Instances: attribute access and the generated methods at work *)

Ok(v) == [err |-> "", val |-> v]
Raise(e) == [err |-> e, val |-> NoValue]

\* instance.name: a property of the type comes first and reads its hidden
\* slot with getattr; then the instance __dict__; then a plain class attribute
GetAttr(st, cls, dict, name) ==
    LET a == LookupAttr(st.decls, st.parent, Mro(st.parent, cls), name)
    IN  IF a.kind = "property"
        THEN IF a.slot \in DOMAIN dict THEN Ok(dict[a.slot]) ELSE Raise("AttributeError")
        ELSE IF name \in DOMAIN dict THEN Ok(dict[name])
        ELSE IF a.kind = "value" THEN Ok(a.val)
        ELSE Raise("AttributeError")

\* instance.name = v: the setter of a property is _frozen_error, which raises;
\* anything else is stored in the instance __dict__
SetAttr(st, cls, dict, name, v) ==
    LET a == LookupAttr(st.decls, st.parent, Mro(st.parent, cls), name)
    IN  IF a.kind = "property"
        THEN [err |-> "AttributeError", dict |-> dict]
        ELSE [err |-> "",
              dict |-> [k \in DOMAIN dict \cup {name} |-> IF k = name THEN v ELSE dict[k]]]

\* del instance.name: the deleter of a property is _frozen_error
DelAttr(st, cls, dict, name) ==
    LET a == LookupAttr(st.decls, st.parent, Mro(st.parent, cls), name)
    IN  IF a.kind = "property" \/ name \notin DOMAIN dict
        THEN [err |-> "AttributeError", dict |-> dict]
        ELSE [err |-> "", dict |-> [k \in DOMAIN dict \ {name} |-> dict[k]]]

\* binding positional arguments to the parameters after self
BindArgs(params, args) ==
    IF Len(args) > Len(params) THEN [err |-> "TypeError", vals |-> <<>>]
    ELSE IF \E i \in DOMAIN params : i > Len(args) /\ ~params[i].hasDefault
         THEN [err |-> "TypeError", vals |-> <<>>]
         ELSE [err |-> "",
               vals |-> [i \in DOMAIN params |->
                            IF i <= Len(args) THEN args[i] ELSE params[i].default]]

RECURSIVE RunStores(_, _, _, _, _, _)
\* the body of a generated __init__: self.<slot> = <parameter>, line by line
RunStores(st, cls, fn, vals, lines, dict) ==
    IF lines = <<>> THEN [err |-> "", dict |-> dict]
    ELSE IF Head(lines).kind # "store"
         THEN RunStores(st, cls, fn, vals, Tail(lines), dict)
         ELSE LET i == CHOOSE j \in DOMAIN fn.params : fn.params[j].name = Head(lines).names[2]
                  r == SetAttr(st, cls, dict, Head(lines).names[1], vals[i])
              IN  IF r.err # "" THEN r
                  ELSE RunStores(st, cls, fn, vals, Tail(lines), r.dict)

\* calling a generated __init__ on a fresh instance of cls
CallInit(st, cls, fn, args) ==
    LET b == BindArgs(fn.params, args)
    IN  IF b.err # "" THEN [err |-> b.err, dict |-> <<>>]
        ELSE RunStores(st, cls, fn, b.vals, fn.lines, <<>>)

\* ('f1', ..., 'fn')[item] with the indexing of tuple: a negative item counts
\* from the end
TupleIndex(names, item) ==
    LET n == Len(names)
        i == IF item < 0 THEN item + n ELSE item
    IN  IF i < 0 \/ i >= n THEN [err |-> "IndexError", name |-> ""]
        ELSE [err |-> "", name |-> names[i + 1]]

\* calling a generated __getitem__: getattr(self, (names)[item])
CallGetItem(st, cls, dict, fn, item) ==
    LET t == TupleIndex(fn.lines[1].names, item)
    IN  IF t.err # "" THEN Raise(t.err) ELSE GetAttr(st, cls, dict, t.name)

RECURSIVE SeqIter(_, _, _, _, _, _)
\* the sequence iterator: self[0], self[1], ... until IndexError
SeqIter(st, cls, dict, fn, i, acc) ==
    LET r == CallGetItem(st, cls, dict, fn, i)
    IN  IF r.err = "IndexError" THEN [err |-> "", vals |-> acc]
        ELSE IF r.err # "" THEN [err |-> r.err, vals |-> acc]
        ELSE SeqIter(st, cls, dict, fn, i + 1, Append(acc, r.val))

RECURSIVE RunYields(_, _, _, _, _)
\* consuming the generator of a generated __iter__: yield self.<name>, line by line
RunYields(st, cls, dict, lines, acc) ==
    IF lines = <<>> THEN [err |-> "", vals |-> acc]
    ELSE IF Head(lines).kind # "yield" THEN RunYields(st, cls, dict, Tail(lines), acc)
         ELSE LET r == GetAttr(st, cls, dict, Head(lines).names[1])
              IN  IF r.err # "" THEN [err |-> r.err, vals |-> acc]
                  ELSE RunYields(st, cls, dict, Tail(lines), Append(acc, r.val))

\* calling a generated __iter__ and consuming what it returns: a body without
\* a yield is no generator function and returns None, which iter() rejects
CallIter(st, cls, dict, fn) ==
    IF \E i \in DOMAIN fn.lines : fn.lines[i].kind = "yield"
    THEN RunYields(st, cls, dict, fn.lines, <<>>)
    ELSE [err |-> "TypeError", vals |-> <<>>]

----------------------------------------------------------------------------
(* The operations on instances *)

\* the class bodies of the two-class chains
DataDecls ==
    { NoDecl,
      <<Fld("x", "int")>>,
      <<FldD("x", "int", IntV("1"))>>,
      <<FldD("x", "int", IntV("2"))>>,
      <<FldD("x", "str", StrV("1"))>>,
      <<Fld("y", "int")>>,
      <<Fld("x", "int"), FldD("y", "int", IntV("2"))>>,
      <<FldD("x", "int", IntV("1")), Fld("y", "int")>> }

FieldNames == {"x", "y"}

\* the positional arguments of a call: the first n of 3, 4, 5, ...
ArgLit == <<"3", "4", "5", "6", "7">>
Args(n) == [i \in 1..n |-> IntV(ArgLit[i])]
\* the value written by an assignment to a field
NewValue == IntV("9")

\* the call of the __init__ that the lookup r found
InitResult(cls, args, r) ==
    IF r.err # "" THEN [err |-> r.err, dict |-> <<>>]
    ELSE CallInit(Tables, cls, r.b.fn, args)

ConstructFrom(cls, args, r, c) ==
    /\ r.counts[cls]["__init__"] <= MaxSynth
    /\ ns' = r.ns
    /\ synthCount' = r.counts
    /\ inst' = IF c.err = ""
               THEN [cls |-> cls, dict |-> c.dict, args |-> args, dict0 |-> c.dict]
               ELSE inst
    /\ out' = [op |-> "construct", pos |-> Len(args), name |-> "", err |-> c.err,
               who |-> cls, other |-> NoInst, vals |-> args]

ConstructWith(cls, args, r) == ConstructFrom(cls, args, r, InitResult(cls, args, r))

\* cls(*args): type.__call__ makes the instance and looks __init__ up on it
Construct(cls, args) ==
    /\ cls \in defined
    /\ ConstructWith(cls, args, Resolved(Tables, synthCount, Mro(parent, cls), cls, "__init__"))
    /\ UNCHANGED <<parent, decls, cgd, methods, defined, userDefd, genDefd, th, cacheVars, kept>>

\* what iterating produces once the lookup of __iter__, r1, and the lookup
\* that followed it, r2, are done
IterResult(cls, r1, r2) ==
    IF r1.err = "" THEN CallIter(Tables, cls, inst.dict, r1.b.fn)
    ELSE IF r2.err # "" THEN [err |-> "TypeError", vals |-> <<>>]
    ELSE SeqIter(Tables, cls, inst.dict, r2.b.fn, 0, <<>>)

\* the lookup of __getitem__ after the lookup r1 of __iter__ has raised
IterFallback(cls, r1) ==
    IF r1.err = "" THEN r1
    ELSE Resolved([Tables EXCEPT !.ns = r1.ns], r1.counts, Mro(parent, cls), cls, "__getitem__")

IterateFrom(cls, r1, r2) ==
    /\ r2.counts[cls]["__iter__"] <= MaxSynth
    /\ r2.counts[cls]["__getitem__"] <= MaxSynth
    /\ ns' = r2.ns
    /\ synthCount' = r2.counts
    /\ out' = [op |-> "iter", pos |-> 0, name |-> "", err |-> IterResult(cls, r1, r2).err,
               who |-> cls, other |-> NoInst, vals |-> IterResult(cls, r1, r2).vals]

IterateWith(cls, r1) == IterateFrom(cls, r1, IterFallback(cls, r1))

\* iterating the instance to its end: the __iter__ slot looks __iter__ up;
\* when that lookup raises, the slot clears the error and falls back to the
\* sequence protocol on __getitem__
Iterate ==
    /\ inst.cls # DatumBase
    /\ IterateWith(inst.cls, Resolved(Tables, synthCount, Mro(parent, inst.cls), inst.cls, "__iter__"))
    /\ UNCHANGED <<parent, decls, cgd, methods, defined, userDefd, genDefd, th, cacheVars, inst, kept>>

\* the call of the __getitem__ that the lookup r found
ItemResult(cls, item, r) ==
    IF r.err # "" THEN Raise(r.err)
    ELSE CallGetItem(Tables, cls, inst.dict, r.b.fn, item)

GetItemFrom(cls, item, r, res) ==
    /\ r.counts[cls]["__getitem__"] <= MaxSynth
    /\ ns' = r.ns
    /\ synthCount' = r.counts
    /\ out' = [op |-> "getitem", pos |-> item, name |-> "", err |-> res.err,
               who |-> cls, other |-> NoInst, vals |-> IF res.err = "" THEN <<res.val>> ELSE <<>>]

GetItemWith(cls, item, r) == GetItemFrom(cls, item, r, ItemResult(cls, item, r))

\* instance[item]
GetItem(item) ==
    /\ inst.cls # DatumBase
    /\ GetItemWith(inst.cls, item, Resolved(Tables, synthCount, Mro(parent, inst.cls), inst.cls, "__getitem__"))
    /\ UNCHANGED <<parent, decls, cgd, methods, defined, userDefd, genDefd, th, cacheVars, inst, kept>>

\* instance.name = v
SetField(name, v) ==
    /\ inst.cls # DatumBase
    /\ LET r == SetAttr(Tables, inst.cls, inst.dict, name, v)
       IN  /\ inst' = [inst EXCEPT !.dict = r.dict]
           /\ out' = [op |-> "setattr", pos |-> 0, name |-> name, err |-> r.err,
                      who |-> inst.cls, other |-> NoInst, vals |-> <<v>>]
    /\ UNCHANGED <<classVars, th, cacheVars, kept>>

\* del instance.name
DelField(name) ==
    /\ inst.cls # DatumBase
    /\ LET r == DelAttr(Tables, inst.cls, inst.dict, name)
       IN  /\ inst' = [inst EXCEPT !.dict = r.dict]
           /\ out' = [op |-> "delattr", pos |-> 0, name |-> name, err |-> r.err,
                      who |-> inst.cls, other |-> NoInst, vals |-> <<>>]
    /\ UNCHANGED <<classVars, th, cacheVars, kept>>

\* class FirstUser(p): d1 and class SecondUser(FirstUser): d2
InitData ==
    /\ \E p \in {Datum, FrozenDatum}, d1 \in DataDecls, d2 \in DataDecls :
          TablesAre(CreateClass(CreateClass(ImportedTables, FirstUser, p, d1, {}, {}),
                                SecondUser, FirstUser, d2, {}, {}))
    /\ defined = {FirstUser, SecondUser}
    /\ userDefd = [c \in Classes |-> {}]
    /\ genDefd = [c \in Classes |->
                    IF c = Datum THEN Range(DatumBody)
                    ELSE IF c = FrozenDatum THEN Range(FrozenDatumBody) ELSE {}]
    /\ synthCount = [c \in Classes |-> [op \in OpNames |-> 0]]
    /\ th = [t \in 1..NumThreads |-> NoThread]
    /\ CacheEmpty
    /\ inst = NoInst
    /\ kept = {}
    /\ out = NoOut

NextData ==
    \/ \E cls \in Classes, n \in 0..MaxArgs : Construct(cls, Args(n))
    \/ Iterate
    \/ \E item \in (0 - MaxPos)..MaxPos : GetItem(item)

SpecData == InitData /\ [][NextData]_vars

NextMutate ==
    \/ \E cls \in Classes, n \in 0..MaxArgs : Construct(cls, Args(n))
    \/ \E name \in FieldNames : SetField(name, NewValue)
    \/ \E name \in FieldNames : DelField(name)

SpecMutate == InitData /\ [][NextMutate]_vars

----------------------------------------------------------------------------
(* Defaults, construction, indexing and iteration *)

\* the merged field list F of a class
FieldList(c) == DictKeys(all_clues_body(decls, parent, c))
\* the instance attribute that holds field f of an instance of c
SlotOf(c, f) == IF IsFrozen(parent, c) THEN _cluegen_prop_store_prefix_ \o f ELSE f
\* the position of field f in F
PosOf(c, f) == CHOOSE i \in DOMAIN FieldList(c) : FieldList(c)[i] = f

Declares(c, f) == \E i \in DOMAIN decls[c] : decls[c][i].name = f
DeclOf(c, f) == decls[c][CHOOSE i \in DOMAIN decls[c] : decls[c][i].name = f]
DeclaresDefault(c, f) == Declares(c, f) /\ DeclOf(c, f).hasDefault
ProperAncestors(c) == Range(Mro(parent, c)) \ {c}

RECURSIVE NearestDefault(_, _)
\* the default the declarations give field f along a chain of classes, a
\* derived class before its bases: a class that declares f decides, with its
\* default or with none
NearestDefault(cs, f) ==
    IF cs = <<>> THEN [has |-> FALSE, val |-> NoValue]
    ELSE IF Declares(Head(cs), f)
         THEN [has |-> DeclOf(Head(cs), f).hasDefault, val |-> DeclOf(Head(cs), f).default]
         ELSE NearestDefault(Tail(cs), f)

\* the parameter of field f in the constructor installed on c
InitParam(c, f) ==
    LET ps == ns[c]["__init__"].fn.params
    IN  ps[CHOOSE j \in DOMAIN ps : ps[j].name = f]

\* C5: when an immutable class and one of its ancestors both declare a default
\* for a field, the merged default table of the class, and the default of the
\* parameter in its generated constructor, hold the default of the class itself.
C5_OwnDefaultWins ==
    \A c \in defined : \A f \in FieldNames :
        ( /\ IsFrozen(parent, c)
          /\ DeclaresDefault(c, f)
          /\ \E a \in ProperAncestors(c) : DeclaresDefault(a, f) )
        => /\ DictGet(get_defaults(cgd, parent, c), f) = DeclOf(c, f).default
           /\ ns[c]["__init__"].kind = "func" => InitParam(c, f).default = DeclOf(c, f).default

\* C6: a class that redeclares a field without a default, below an ancestor
\* that declared a default for it, has a constructor whose parameter for the
\* field has no default, and no instance of it is constructed without a value
\* for the field.
C6_RedeclaredIsMandatory ==
    \A c \in defined : \A f \in FieldNames :
        ( /\ Declares(c, f)
          /\ ~DeclaresDefault(c, f)
          /\ \E a \in ProperAncestors(c) : DeclaresDefault(a, f) )
        => /\ ns[c]["__init__"].kind = "func" => ~InitParam(c, f).hasDefault
           /\ inst.cls = c => PosOf(c, f) <= Len(inst.args)

\* C8: instance[p] on an instance with n fields returns the value of the
\* field at position p for 0 <= p < n and raises IndexError for every p >= n
\* and every p < 0.
C8_IndexByPosition ==
    out.op = "getitem" =>
        LET F == FieldList(inst.cls)
            p == out.pos
        IN  IF 0 <= p /\ p < Len(F)
            THEN out.err = "" /\ out.vals = <<inst.dict[SlotOf(inst.cls, F[p + 1])]>>
            ELSE out.err = "IndexError"

\* the argument tuples the declarations allow for class c: no more values than
\* fields, and every field left out has a default
ValidArgs(c, args) ==
    /\ Len(args) <= Len(FieldList(c))
    /\ \A i \in DOMAIN FieldList(c) :
          i > Len(args) => NearestDefault(Mro(parent, c), FieldList(c)[i]).has

\* the argument values with the declared defaults filled in, in F order
FilledArgs(c, args) ==
    [i \in DOMAIN FieldList(c) |->
        IF i <= Len(args) THEN args[i]
        ELSE NearestDefault(Mro(parent, c), FieldList(c)[i]).val]

\* C10: iterating an instance constructed from a valid argument tuple yields
\* the argument values, defaults filled in, in F order; the constructor of an
\* immutable class stores each field in the hidden slot its accessor reads.
C10_ConstructThenIterate ==
    /\ (out.op = "iter" /\ ValidArgs(inst.cls, inst.args)) =>
          (out.err = "" /\ out.vals = FilledArgs(inst.cls, inst.args))
    /\ (inst.cls # DatumBase /\ IsFrozen(parent, inst.cls)) =>
          \A f \in Range(FieldList(inst.cls)) :
              /\ SlotOf(inst.cls, f) \in DOMAIN inst.dict0
              /\ GetAttr(Tables, inst.cls, inst.dict0, f) = Ok(inst.dict0[SlotOf(inst.cls, f)])

\* C9: on an instance of an immutable class every assignment to a declared
\* field and every deletion of one, through its public name, raises
\* AttributeError naming the class of the instance, and the stored field
\* values stay what the constructor stored.
C9_FrozenWriteFails ==
    (inst.cls # DatumBase /\ IsFrozen(parent, inst.cls)) =>
        /\ \A f \in Range(FieldList(inst.cls)) :
              /\ SlotOf(inst.cls, f) \in DOMAIN inst.dict
              /\ inst.dict[SlotOf(inst.cls, f)] = inst.dict0[SlotOf(inst.cls, f)]
        /\ (out.op \in {"setattr", "delattr"} /\ out.name \in Range(FieldList(inst.cls))) =>
              (out.err = "AttributeError" /\ out.who = inst.cls)

\* an assignment to an inherited field with a default has failed on an
\* instance that holds that default
C9_Witness ==
    /\ inst.cls = SecondUser
    /\ IsFrozen(parent, SecondUser)
    /\ DeclaresDefault(FirstUser, "x")
    /\ ~Declares(SecondUser, "x")
    /\ out.op = "setattr"
    /\ out.name = "x"
    /\ out.err = "AttributeError"
    /\ inst.args = <<>>
    /\ inst.dict[SlotOf(SecondUser, "x")] = IntV("1")

----------------------------------------------------------------------------
(* Equality *)

BoolV(b) == [ty |-> "bool", lit |-> IF b THEN "True" ELSE "False"]
NotImplemented == [ty |-> "NotImplemented", lit |-> ""]

RECURSIVE AttrTuple(_, _, _, _)
\* (x.f1, ..., x.fn,): the attributes are read in order, the first read that
\* raises ends the evaluation
AttrTuple(st, x, names, acc) ==
    IF names = <<>> THEN [err |-> "", vals |-> acc]
    ELSE LET r == GetAttr(st, x.cls, x.dict, Head(names))
         IN  IF r.err # "" THEN [err |-> r.err, vals |-> acc]
             ELSE AttrTuple(st, x, Tail(names), Append(acc, r.val))

\* the comparison of the two tuples, once both are evaluated
TuplesEqual(s, o) ==
    IF s.err # "" THEN Raise(s.err)
    ELSE IF o.err # "" THEN Raise(o.err)
    ELSE Ok(BoolV(s.vals = o.vals))

\* a comparison that accepts an instance of any subclass of the class of self
CallEq_AnySubclass(st, self, other, fn) ==
    IF self.cls \in Range(Mro(st.parent, other.cls))
    THEN TuplesEqual(AttrTuple(st, self, fn.lines[1].names, <<>>),
                     AttrTuple(st, other, fn.lines[1].names, <<>>))
    ELSE Ok(NotImplemented)

\* calling a generated __eq__: if self.__class__ is other.__class__:
\* return (self.f1, ...,) == (other.f1, ...,) else: return NotImplemented
CallEq(st, self, other, fn) ==
    IF self.cls = other.cls
    THEN TuplesEqual(AttrTuple(st, self, fn.lines[1].names, <<>>),
                     AttrTuple(st, other, fn.lines[1].names, <<>>))
    ELSE Ok(NotImplemented)

\* the instances at hand
Instances == kept \cup (IF inst.cls = DatumBase THEN {} ELSE {inst})

\* another variable is bound to the instance
Keep ==
    /\ inst.cls # DatumBase
    /\ inst \notin kept
    /\ Cardinality(kept) < MaxKept
    /\ kept' = kept \cup {inst}
    /\ UNCHANGED <<classVars, th, cacheVars, inst, out>>

\* the call of the __eq__ that the lookup r found
EqResult(other, r) ==
    IF r.err # "" THEN Raise(r.err) ELSE CallEq(Tables, inst, other, r.b.fn)

CompareFrom(other, r, res) ==
    /\ r.counts[inst.cls]["__eq__"] <= MaxSynth
    /\ ns' = r.ns
    /\ synthCount' = r.counts
    /\ out' = [op |-> "eq", pos |-> 0, name |-> "", err |-> res.err,
               who |-> inst.cls, other |-> other,
               vals |-> IF res.err = "" THEN <<res.val>> ELSE <<>>]

CompareWith(other, r) == CompareFrom(other, r, EqResult(other, r))

\* inst.__eq__(other)
CompareTo(other) ==
    /\ inst.cls # DatumBase
    /\ other \in Instances
    /\ CompareWith(other, Resolved(Tables, synthCount, Mro(parent, inst.cls), inst.cls, "__eq__"))
    /\ UNCHANGED <<parent, decls, cgd, methods, defined, userDefd, genDefd, th, cacheVars, inst, kept>>

\* the instance is compared with one of the instances at hand
Compare == \E other \in Instances : CompareTo(other)

\* the class bodies of the compared classes: a class with two fields, the
\* second with a default, and below it a class with the same fields or one more
EqDecls1 ==
    { <<Fld("x", "int"), FldD("y", "int", IntV("4"))>>,
      <<Fld("x", "int"), FldD("y", "int", IntV("2"))>> }
EqDecls2 == { NoDecl, <<FldD("y", "int", IntV("5"))>> }

InitEq ==
    /\ \E p \in {Datum, FrozenDatum}, d1 \in EqDecls1, d2 \in EqDecls2 :
          TablesAre(CreateClass(CreateClass(ImportedTables, FirstUser, p, d1, {}, {}),
                                SecondUser, FirstUser, d2, {}, {}))
    /\ defined = {FirstUser, SecondUser}
    /\ userDefd = [c \in Classes |-> {}]
    /\ genDefd = [c \in Classes |->
                    IF c = Datum THEN Range(DatumBody)
                    ELSE IF c = FrozenDatum THEN Range(FrozenDatumBody) ELSE {}]
    /\ synthCount = [c \in Classes |-> [op \in OpNames |-> 0]]
    /\ th = [t \in 1..NumThreads |-> NoThread]
    /\ CacheEmpty
    /\ inst = NoInst
    /\ kept = {}
    /\ out = NoOut

NextEq ==
    \/ \E cls \in Classes, n \in 0..MaxArgs : Construct(cls, Args(n))
    \/ Keep
    \/ Compare

SpecEq == InitEq /\ [][NextEq]_vars

\* the fields of two instances of one class are pairwise equal
SameFields(a, b) ==
    \A f \in Range(FieldList(a.cls)) : a.dict[SlotOf(a.cls, f)] = b.dict[SlotOf(b.cls, f)]

\* what the __eq__ installed on the class of a returns for (a, b)
EqOf(a, b) == CallEq(Tables, a, b, ns[a.cls]["__eq__"].fn)

\* C11: the generated __eq__ returns True iff both operands have the identical
\* class and all fields are pairwise equal, False when the classes are
\* identical and a field differs, and NotImplemented whenever the classes
\* differ, also for a subclass with the same fields; on instances of one class
\* it is reflexive, symmetric and transitive.
C11_GeneratedEquality ==
    /\ out.op = "eq" =>
          /\ out.err = ""
          /\ out.vals = <<IF inst.cls # out.other.cls THEN NotImplemented
                          ELSE BoolV(SameFields(inst, out.other))>>
    /\ \A a \in Instances, b \in Instances, c \in Instances :
          (a.cls = b.cls /\ b.cls = c.cls /\ ns[a.cls]["__eq__"].kind = "func") =>
              /\ EqOf(a, a) = Ok(BoolV(TRUE))
              /\ EqOf(a, b) = EqOf(b, a)
              /\ (EqOf(a, b) = Ok(BoolV(TRUE)) /\ EqOf(b, c) = Ok(BoolV(TRUE)))
                    => EqOf(a, c) = Ok(BoolV(TRUE))

\* an instance was compared with an instance of its subclass that has the same
\* field values, while a different instance of its own class with equal fields
\* is at hand
C11_Witness ==
    /\ out.op = "eq"
    /\ inst.cls = FirstUser
    /\ out.other.cls = SecondUser
    /\ FieldList(FirstUser) = FieldList(SecondUser)
    /\ SameFields(inst, out.other)
    /\ out.vals = <<NotImplemented>>
    /\ \E b \in kept : b.cls = FirstUser /\ b # inst /\ SameFields(inst, b)

----------------------------------------------------------------------------
(* The field table *)

\* the class bodies of the chains whose field tables are collected
FieldDecls == DataDecls \cup { <<Fld("y", "str"), Fld("x", "int")>> }

InitFields ==
    /\ \E p \in {Datum, FrozenDatum}, d1 \in FieldDecls, d2 \in FieldDecls :
          TablesAre(CreateClass(CreateClass(ImportedTables, FirstUser, p, d1, {}, {}),
                                SecondUser, FirstUser, d2, {}, {}))
    /\ defined = {FirstUser, SecondUser}
    /\ userDefd = [c \in Classes |-> {}]
    /\ genDefd = [c \in Classes |->
                    IF c = Datum THEN Range(DatumBody)
                    ELSE IF c = FrozenDatum THEN Range(FrozenDatumBody) ELSE {}]
    /\ synthCount = [c \in Classes |-> [op \in OpNames |-> 0]]
    /\ th = [t \in 1..NumThreads |-> NoThread]
    /\ CacheEmpty
    /\ inst = NoInst
    /\ kept = {}
    /\ out = NoOut

NextFields == \E cls \in Observed : all_clues(cls)

SpecFields == InitFields /\ [][NextFields]_vars

\* the classes of the chain of c that declare the name
Declarers(c, name) == {a \in Range(Mro(parent, c)) : Declares(a, name)}
\* how far below DatumBase a class is
Depth(a) == Len(Mro(parent, a))
\* the most-derived and the most-base class of the chain that declare the name
MostDerived(c, name) == CHOOSE a \in Declarers(c, name) : \A b \in Declarers(c, name) : Depth(b) <= Depth(a)
Introducer(c, name) == CHOOSE a \in Declarers(c, name) : \A b \in Declarers(c, name) : Depth(a) <= Depth(b)

\* C12: the field table of a class holds every name declared on its ancestor
\* chain exactly once, with the type of the most-derived declaration of the
\* name, and a name first declared by a derived class comes after every name
\* first declared by one of its ancestors.
C12_FieldTable ==
    ret.cls \in Observed =>
        LET c == ret.cls
            t == ret.clues
        IN  /\ \A name \in FieldNames :
                  Cardinality({j \in DOMAIN t : t[j].k = name})
                      = IF Declarers(c, name) = {} THEN 0 ELSE 1
            /\ \A j \in DOMAIN t :
                  /\ t[j].k \in FieldNames
                  /\ t[j].v = DeclOf(MostDerived(c, t[j].k), t[j].k).type
            /\ \A i \in DOMAIN t, j \in DOMAIN t :
                  Depth(Introducer(c, t[i].k)) < Depth(Introducer(c, t[j].k)) => i < j

\* the table of a class that redeclares, with another type and in another
\* order, the two fields of its base
C12_Witness ==
    /\ ret.cls = SecondUser
    /\ decls[FirstUser] = <<Fld("x", "int"), FldD("y", "int", IntV("2"))>>
    /\ decls[SecondUser] = <<Fld("y", "str"), Fld("x", "int")>>
    /\ ret.clues = <<[k |-> "x", v |-> "int"], [k |-> "y", v |-> "str"]>>

----------------------------------------------------------------------------
(* Synthesis at first use *)

\* C13: for every class that its class statement accepted, whose fields have
\* distinct valid names and defaults at any positions, the first access to
\* the constructor generates and installs a constructor: no call of the class
\* ends in an error of compiling or evaluating the generated text.
C13_SynthesisNeverFails ==
    /\ \A c \in defined :
          synthCount[c]["__init__"] > 0 => ns[c]["__init__"].kind = "func"
    /\ out.op = "construct" =>
          out.err \notin {"SyntaxError", "NameError", "IndentationError"}

----------------------------------------------------------------------------
(* The registration lists *)

\* the names registered in cls._methods
Registered(c) == {e.name : e \in Range(LookupMethods(methods, Mro(parent, c)))}

\* the classes of the chain of D below T
Between(D, T) == {k \in Range(Mro(parent, D)) : Depth(k) > Depth(T)}

\* C14: when the body of a class T writes operation N by hand, N is not in the
\* registration list of T, and every descendant of T that neither writes N
\* nor marks it @cluegen (nor has such a class between itself and T) has no
\* binding for N of its own and resolves N to the method T wrote, after any
\* class definitions and accesses.
C14_UserMethodStopsPropagation ==
    \A T \in defined : \A N \in userDefd[T] :
        /\ N \notin Registered(T)
        /\ \A D \in defined :
              ( /\ T \in ProperAncestors(D)
                /\ \A k \in Between(D, T) : N \notin (userDefd[k] \cup genDefd[k]) )
              => /\ ns[D][N].kind = "absent"
                 /\ LookupOp(ns, Mro(parent, D), N) = UserB(T, N)

\* cls.__init_subclass__() once more, on a class that is already finalized
Refinalize(cls) ==
    /\ cls \in defined
    /\ SetTables(__init_subclass__(Tables, cls))
    /\ UNCHANGED <<defined, userDefd, genDefd, synthCount, th, cacheVars, instVars>>

NextReg ==
    \/ \E c \in UserClasses, p \in Classes, decl \in ClassDecls,
          user \in SUBSET UserOps, regen \in SUBSET UserOps :
            DefineClass(c, p, decl, user, regen)
    \/ \E cls \in Classes, op \in AccessOps : Access(cls, op)
    \/ \E cls \in Classes : Refinalize(cls)

SpecReg == Init /\ [][NextReg]_vars

\* cls._methods, and what it is after the step
MethodsList(c) == LookupMethods(methods, Mro(parent, c))
MethodsListAfter(c) == LookupMethods(methods', Mro(parent', c))

\* the entries of cls._methods for one name
EntriesFor(c, N) == {i \in DOMAIN MethodsList(c) : MethodsList(c)[i].name = N}

\* C15: the registration list of a finalized class holds at most one entry
\* per operation name, also when the class marks @cluegen an operation its
\* ancestor registered: then the entry, if any, is the generator of the class
\* itself; this stays so when the class is finalized a second time.
C15_OneEntryPerName ==
    \A c \in Live : \A N \in OpNames :
        /\ Cardinality(EntriesFor(c, N)) <= 1
        /\ (c \in defined /\ N \in genDefd[c]) =>
              \A i \in EntriesFor(c, N) : MethodsList(c)[i].val = GenB(c, N)

\* a class that marked @cluegen the constructor its base registered holds the
\* one entry for it, and has been finalized again after its __iter__ was
\* synthesized, which dropped that name from its list
C15_Witness ==
    \E c \in defined :
        /\ "__init__" \in genDefd[c]
        /\ "__init__" \in Registered(parent[c])
        /\ Cardinality(EntriesFor(c, "__init__")) = 1
        /\ ns[c]["__iter__"].kind = "func"
        /\ "__iter__" \notin Registered(c)

\* the classes that are neither c nor below c
NotBelow(c) == {k \in Classes : c \notin Range(Mro(parent, k))}

\* C16: no class outside the immutable variant has __hash__ in its
\* registration list, in whatever order the classes are defined; and a class
\* statement or a finalization changes the list of that class only: the list
\* of every ancestor and of every sibling stays what it was.
C16_HashOnlyFrozen ==
    /\ [](\A c \in Live : ~IsFrozen(parent, c) => "__hash__" \notin Registered(c))
    /\ [][ /\ \A c \in Classes :
                 (c \in defined' \ defined \/ Refinalize(c)) =>
                     \A k \in NotBelow(c) \cap Live : MethodsListAfter(k) = MethodsList(k)
           /\ (defined' = defined /\ \A c \in Classes : ~Refinalize(c)) => methods' = methods
         ]_vars

\* a mutable class that registered a constructor generator of its own and an
\* immutable class are both defined; only the immutable one lists __hash__,
\* and the list of Datum is what the import left
C16_Witness ==
    \E m \in defined, f \in defined :
        /\ ~IsFrozen(parent, m)
        /\ IsFrozen(parent, f)
        /\ "__init__" \in genDefd[m]
        /\ "__hash__" \in Registered(f)
        /\ "__hash__" \notin Registered(m)
        /\ MethodsList(Datum) = [i \in DOMAIN DatumBody |->
                                    [name |-> DatumBody[i], val |-> GenB(Datum, DatumBody[i])]]

----------------------------------------------------------------------------
(* What an access leaves alone *)

\* the step touches nothing but the binding and the synthesis count of
\* (cls, op), and a new binding of (cls, op) is a function generated for cls
OnlyOn(cls, op) ==
    /\ \A k \in Classes : \A o \in OpNames :
          (k # cls \/ o # op) =>
              (ns'[k][o] = ns[k][o] /\ synthCount'[k][o] = synthCount[k][o])
    /\ ns'[cls][op] # ns[cls][op] =>
          (ns'[cls][op].kind = "func" /\ ns'[cls][op].cls = cls)
    /\ methods' = methods

\* C17: an access to operation N on type T, directly or through super() on
\* behalf of T, installs what it synthesizes on T only: the binding of N on
\* every other class and the binding of every other operation on T stay what
\* they were, and nothing else is synthesized.
C17_InstallOnTypeOnly ==
    [][ \A cls \in Classes : \A op \in AccessOps :
            (Access(cls, op) \/ \E c \in Classes : SuperAccess(c, cls, op)) => OnlyOn(cls, op)
      ]_vars

\* the constructor of a class is synthesized and installed while its subclass
\* and its base Datum still hold their untriggered generators and its own
\* __iter__ was never synthesized
C17_Witness ==
    \E T \in defined, D \in defined :
        /\ parent[D] = T
        /\ ns[T]["__init__"].kind = "func"
        /\ ns[T]["__init__"].cls = T
        /\ ns[D]["__init__"].kind = "gen"
        /\ synthCount[D]["__init__"] = 0
        /\ ns[T]["__iter__"].kind = "gen"
        /\ synthCount[T]["__iter__"] = 0
        /\ ns[Datum]["__init__"].kind = "gen"

====
